---- MODULE Spec2Model ----
(***************************************************************************)
(* Kamino liquidity analysis: the report run of LiquidityAnalyzer          *)
(* (analyzer.py), the reserve fetch of KaminoClient (kamino_client.py),    *)
(* the quote retry loop and liquidity curve of JupiterClient               *)
(* (jupiter_client.py) and the helpers of utils.py.                        *)
(*                                                                         *)
(* Numbers.  In the report run Python floats are modelled by exact         *)
(* integers and fractions:                                                 *)
(*   - USD amounts, prices and swap sizes are integers of one common unit; *)
(*   - a fraction is a record [num, den] with den > 0 (Rat);               *)
(*   - the aggregator's priceImpact fraction is counted in 1/1000, and a   *)
(*     percentage (price_impact_pct, route_concentration) in 1/100 of a    *)
(*     percent, so abs(x * 100) is Abs(x * 100) \div 10 in these units;    *)
(*   - a value formatted with :.1f is an integer count of tenths.          *)
(* The conversions of utils.py evaluated on their own keep their           *)
(* arithmetic: usd_to_native_units works on decimal.Decimal values         *)
(* (digit sequences, 28 significant digits, division rounded half to       *)
(* even) and native_to_usd on IEEE 754 binary64 values (53-bit mantissa,   *)
(* each operation rounded to nearest, ties to even).                       *)
(* An Optional value is a record [some, v]; a JSON value is a record       *)
(* [k, s, n] (kind, string payload, numeric payload).                      *)
(***************************************************************************)
EXTENDS Integers, Sequences, FiniteSets, TLC

\* ------------------------------------------------------------ bounds
\* longest reserve array in a market response
MaxRecords == 2
\* number of quote calls of one run whose answers may differ from the
\* nominal one (HTTP 200 with GoodBody on the first attempt)
MaxDeviatingCalls == 1
\* longest route plan handed to the helpers of utils.py on their own
MaxSteps == 5

\* --------------------------------------------------------- constants.py
MAX_RETRIES == 3
RETRY_BACKOFF_FACTOR == 2
HIGH_PRICE_IMPACT_THRESHOLD == 5
ROUTE_CONCENTRATION_THRESHOLD == 70
MIN_TVL_MULTIPLE == 5
\* the default ladder, in millions of USD
SWAP_SIZE_BANDS_USD == <<1, 5, 10, 20, 50, 100>>
\* the symbols of VOLATILE_ASSETS that occur in the modelled responses
VOLATILE_ASSETS == {"SOL", "MSOL", "WBTC", "WETH"}
\* output_decimals default of analyze_liquidity_depth (USDC)
OUTPUT_DECIMALS == 6

\* ------------------------------------------------------------- values
NoneN == [some |-> FALSE, v |-> 0]
SomeN(x) == [some |-> TRUE, v |-> x]
NoneS == [some |-> FALSE, v |-> ""]
SomeS(x) == [some |-> TRUE, v |-> x]
\* route_summary is the joined text; its labels are kept apart
NoneL == [some |-> FALSE, v |-> <<>>]
SomeL(x) == [some |-> TRUE, v |-> x]

Rat(n, d) == [num |-> n, den |-> d]
RatZero == Rat(0, 1)

Abs(x) == IF x < 0 THEN -x ELSE x

RECURSIVE Pow(_, _)
Pow(b, e) == IF e <= 0 THEN 1 ELSE b * Pow(b, e - 1)

\* JSON values: a missing key, null, a string, a number, a string that
\* holds the number n, a string that holds no number, a list, an object
JMissing == [k |-> "missing", s |-> "", n |-> 0]
JNull == [k |-> "null", s |-> "", n |-> 0]
JStr(x) == [k |-> "str", s |-> x, n |-> 0]
JNum(x) == [k |-> "num", s |-> "", n |-> x]
JNumStr(x) == [k |-> "numstr", s |-> "", n |-> x]
JBadStr == [k |-> "badstr", s |-> "abc", n |-> 0]
JList == [k |-> "list", s |-> "", n |-> 0]
JObj == [k |-> "obj", s |-> "", n |-> 0]

\* dict.get(key, default): the default only when the key is missing
Get(val, default) == IF val.k = "missing" THEN default ELSE val

\* Python truthiness of a JSON value
Truthy(val) ==
    CASE val.k \in {"missing", "null"} -> FALSE
      [] val.k = "str" -> val.s # ""
      [] val.k = "num" -> val.n # 0
      [] val.k = "list" -> FALSE
      [] val.k = "obj" -> FALSE
      [] OTHER -> TRUE

\* value formatted with :.1f, as a count of tenths: the nearest tenth of
\* num/den (num >= 0, den > 0), a tie going to the even tenth.  The inputs
\* of the model have no tie that a binary float cannot hold exactly.
Fmt1(num, den) ==
    LET q == (10 * num) \div den
        r == (10 * num) % den
    IN  IF 2 * r > den THEN q + 1
        ELSE IF 2 * r < den THEN q
        ELSE IF q % 2 = 0 THEN q ELSE q + 1

\* value formatted with :.0f: the nearest integer, a tie going to the even
Fmt0(num, den) ==
    LET q == num \div den
        r == num % den
    IN  IF 2 * r > den THEN q + 1
        ELSE IF 2 * r < den THEN q
        ELSE IF q % 2 = 0 THEN q ELSE q + 1

\* ------------------------------------------------ decimal.Decimal values
\* significant digits of the context the Decimal operations of utils.py
\* run under (the default context of the decimal module)
DECIMAL_PRECISION == 28

\* A decimal number m * 10^e handed in as text (Decimal(str(x)))
Dec(m, e) == [m |-> m, e |-> e]

\* the digits of a natural number, most significant first (<<>> for 0)
RECURSIVE IntDigits(_)
IntDigits(n) == IF n = 0 THEN <<>> ELSE Append(IntDigits(n \div 10), n % 10)

\* the natural number a digit sequence spells
RECURSIVE DigitsValue(_)
DigitsValue(ds) ==
    IF ds = <<>> THEN 0
    ELSE 10 * DigitsValue(SubSeq(ds, 1, Len(ds) - 1)) + ds[Len(ds)]

Zeros(n) == [i \in 1..n |-> 0]

RECURSIVE StripZeros(_)
StripZeros(ds) ==
    IF ds # <<>> /\ ds[1] = 0 THEN StripZeros(Tail(ds)) ELSE ds

\* the next n digits of the fraction r / p (0 <= r < p) and the remainder
\* left after them
RECURSIVE LongDivision(_, _, _)
LongDivision(r, p, n) ==
    IF n <= 0 THEN [digits |-> <<>>, rem |-> r]
    ELSE LET rest == LongDivision((10 * r) % p, p, n - 1)
         IN  [digits |-> <<(10 * r) \div p>> \o rest.digits, rem |-> rest.rem]

\* a digit sequence plus one in its last place
RECURSIVE Incremented(_)
Incremented(ds) ==
    IF ds = <<>> THEN <<1>>
    ELSE IF ds[Len(ds)] < 9 THEN [ds EXCEPT ![Len(ds)] = @ + 1]
    ELSE Append(Incremented(SubSeq(ds, 1, Len(ds) - 1)), 0)

\* the tens the numerator is scaled by so that the quotient has an integer
\* part (its first significant digit)
RECURSIVE LeadShift(_, _)
LeadShift(m, p) == IF m >= p THEN 0 ELSE 1 + LeadShift(10 * m, p)

\* Decimal division a / p (a.m >= 0, p.m > 0) in the context: the
\* quotient kept to DECIMAL_PRECISION significant digits, the rest rounded
\* half-even; the value is digits * 10^exp
DecimalDivide(a, p) ==
    IF a.m = 0 THEN [digits |-> <<>>, exp |-> 0]
    ELSE LET shift == LeadShift(a.m, p.m)
             num == a.m * Pow(10, shift)
             int == IntDigits(num \div p.m)
             frac == LongDivision(num % p.m, p.m, DECIMAL_PRECISION - Len(int))
             kept == int \o frac.digits
             up == \/ 2 * frac.rem > p.m
                   \/ 2 * frac.rem = p.m /\ kept[Len(kept)] % 2 = 1
         IN  [digits |-> IF up THEN Incremented(kept) ELSE kept,
              exp |-> a.e - p.e - shift - Len(frac.digits)]

\* x * Decimal(10 ** decimals): the digits of x are kept, so the product
\* is not rounded
DecimalTimesPow10(x, decimals) == [x EXCEPT !.exp = @ + decimals]

\* int(x.to_integral_value(ROUND_DOWN)): the digits of the integer part
ToIntegralDown(x) ==
    IF x.exp >= 0 THEN StripZeros(x.digits \o Zeros(x.exp))
    ELSE IF -x.exp >= Len(x.digits) THEN <<>>
    ELSE StripZeros(SubSeq(x.digits, 1, Len(x.digits) + x.exp))

\* ------------------------------------------------------- float values
\* A float (IEEE 754 binary64) is [mant, e]: the value mant * 2^e with
\* mant a digit sequence of FLOAT_MANTISSA_BITS bits, or <<>> for zero.
\* More generally [mant, d, e] is the number mant * 2^e / 10^d.
FLOAT_MANTISSA_BITS == 53

Front(s) == IF s = <<>> THEN <<>> ELSE SubSeq(s, 1, Len(s) - 1)

\* x <= y for two digit sequences without leading zeros
DigitsLE(x, y) ==
    \/ Len(x) < Len(y)
    \/ /\ Len(x) = Len(y)
       /\ \/ x = y
          \/ \E i \in 1..Len(x) :
               x[i] < y[i] /\ \A j \in 1..(i - 1) : x[j] = y[j]

\* the last four digits of a digit sequence, and the digits before them
Chunk(ds) == IF Len(ds) <= 4 THEN ds ELSE SubSeq(ds, Len(ds) - 3, Len(ds))
Rest(ds) == IF Len(ds) <= 4 THEN <<>> ELSE SubSeq(ds, 1, Len(ds) - 4)
FourDigits(v) == <<v \div 1000, (v \div 100) % 10, (v \div 10) % 10, v % 10>>

\* the digits of ds * k + carry (k a natural number below 10^4), four
\* digits at a time
RECURSIVE TimesCarry(_, _, _)
TimesCarry(ds, k, carry) ==
    IF Len(ds) <= 4 THEN IntDigits(DigitsValue(ds) * k + carry)
    ELSE LET v == DigitsValue(Chunk(ds)) * k + carry
         IN  TimesCarry(Rest(ds), k, v \div 10000) \o FourDigits(v % 10000)

\* the digits of a + b + carry, four digits at a time
RECURSIVE AddCarry(_, _, _)
AddCarry(a, b, carry) ==
    IF Len(a) <= 4 /\ Len(b) <= 4
    THEN IntDigits(DigitsValue(a) + DigitsValue(b) + carry)
    ELSE LET v == DigitsValue(Chunk(a)) + DigitsValue(Chunk(b)) + carry
         IN  AddCarry(Rest(a), Rest(b), v \div 10000) \o FourDigits(v % 10000)

\* the digits of a * b
RECURSIVE BigTimes(_, _)
BigTimes(a, b) ==
    IF b = <<>> THEN <<>>
    ELSE StripZeros(AddCarry(TimesCarry(a, DigitsValue(Chunk(b)), 0),
                             BigTimes(a, Rest(b)) \o Zeros(4), 0))

\* the digits of mant * 2^n
RECURSIVE Doubled(_, _)
Doubled(mant, n) ==
    IF n <= 0 THEN mant
    ELSE IF n >= 10 THEN Doubled(TimesCarry(mant, 1024, 0), n - 10)
    ELSE Doubled(TimesCarry(mant, 2, 0), n - 1)

\* the digits of 2^n
RECURSIVE BigPow2(_)
BigPow2(n) == Doubled(<<1>>, n)

MantissaMin == BigPow2(FLOAT_MANTISSA_BITS - 1)
MantissaTop == BigPow2(FLOAT_MANTISSA_BITS)

FloatZero == [mant |-> <<>>, e |-> 0]

\* the digits of mant before and after the decimal point of mant / 10^d
IntPart(mant, d) ==
    IF d >= Len(mant) THEN <<>> ELSE SubSeq(mant, 1, Len(mant) - d)
FracPart(mant, d) ==
    IF d >= Len(mant) THEN Zeros(d - Len(mant)) \o mant
    ELSE SubSeq(mant, Len(mant) - d + 1, Len(mant))

\* the float nearest to mant * 2^e / 10^d, a tie going to the even
\* mantissa: the number is doubled (mant * 2, e - 1) or halved (mant * 5,
\* d + 1, e + 1), ten or five times at once while it is far off, until its
\* integer part has the bits of a mantissa, and the digits after the point
\* decide the rounding
RECURSIVE RoundToFloat(_, _, _)
RoundToFloat(mant, d, e) ==
    LET q == IntPart(mant, d)
        r == FracPart(mant, d)
    IN  IF StripZeros(mant) = <<>> THEN FloatZero
        ELSE IF Len(q) <= 12
        THEN RoundToFloat(StripZeros(TimesCarry(mant, 1024, 0)), d, e - 10)
        ELSE IF ~DigitsLE(MantissaMin, q)
        THEN RoundToFloat(StripZeros(TimesCarry(mant, 2, 0)), d, e - 1)
        ELSE IF Len(q) >= 18
        THEN RoundToFloat(TimesCarry(mant, 3125, 0), d + 5, e + 5)
        ELSE IF DigitsLE(MantissaTop, q)
        THEN RoundToFloat(TimesCarry(mant, 5, 0), d + 1, e + 1)
        ELSE LET rest == \E i \in 2..d : r[i] # 0
                 up == /\ d > 0
                       /\ \/ r[1] > 5
                          \/ r[1] = 5 /\ rest
                          \/ r[1] = 5 /\ ~rest /\ q[Len(q)] % 2 = 1
                 m == IF up THEN Incremented(q) ELSE q
             IN  IF m = MantissaTop THEN [mant |-> MantissaMin, e |-> e + 1]
                 ELSE [mant |-> m, e |-> e]

\* float(text) of the decimal number x = m * 10^e (m >= 0)
FloatOf(x) ==
    IF x.e >= 0 THEN RoundToFloat(StripZeros(IntDigits(x.m) \o Zeros(x.e)), 0, 0)
    ELSE RoundToFloat(IntDigits(x.m), -x.e, 0)

\* x * y for two floats
FloatTimes(x, y) ==
    IF x.mant = <<>> \/ y.mant = <<>> THEN FloatZero
    ELSE RoundToFloat(BigTimes(x.mant, y.mant), 0, x.e + y.e)

\* the digits of x.mant over the common scale 2^e / 10^d
Scaled(x, d, e) == StripZeros(Doubled(x.mant, x.e - e) \o Zeros(d - x.d))

\* x <= y and x + y for two numbers mant * 2^e / 10^d
NumberLE(x, y) ==
    LET d == IF x.d > y.d THEN x.d ELSE y.d
        e == IF x.e < y.e THEN x.e ELSE y.e
    IN  DigitsLE(Scaled(x, d, e), Scaled(y, d, e))
NumberPlus(x, y) ==
    LET d == IF x.d > y.d THEN x.d ELSE y.d
        e == IF x.e < y.e THEN x.e ELSE y.e
    IN  [mant |-> StripZeros(AddCarry(Scaled(x, d, e), Scaled(y, d, e), 0)),
         d |-> d, e |-> e]
\* a float as such a number
NumberOf(x) == [mant |-> x.mant, d |-> 0, e |-> x.e]

\* ------------------------------------------------------------ utils.py
\* usd_to_native_units with the guard token_price_usd < 0: a zero price is
\* let through (and the conversion gives 0)
usd_to_native_ZeroPriceAllowed(amount_usd, token_price_usd, decimals) ==
    IF token_price_usd < 0
    THEN [raised |-> TRUE, v |-> 0]
    ELSE IF token_price_usd = 0 THEN [raised |-> FALSE, v |-> 0]
    ELSE [raised |-> FALSE,
          v |-> (amount_usd * Pow(10, decimals)) \div token_price_usd]

\* usd_to_native_decimal with the guard token_price_usd < 0: a zero price
\* passes the guard (and the conversion gives 0)
usd_to_native_decimal_NegativeOnly(amount_usd, token_price_usd, decimals) ==
    IF token_price_usd.m < 0
    THEN [raised |-> TRUE, digits |-> <<>>]
    ELSE [raised |-> FALSE, digits |-> <<>>]

\* usd_to_native_units on the decimal numbers amount_usd and
\* token_price_usd: [raised, digits]; ValueError for a price <= 0, else the
\* digits of int((amount / price * 10^decimals) rounded down), the division
\* and the product being Decimal operations
usd_to_native_decimal(amount_usd, token_price_usd, decimals) ==
    IF token_price_usd.m <= 0
    THEN [raised |-> TRUE, digits |-> <<>>]
    ELSE [raised |-> FALSE,
          digits |-> ToIntegralDown(
                       DecimalTimesPow10(
                         DecimalDivide(amount_usd, token_price_usd), decimals))]

\* usd_to_native_units on whole numbers: [raised, v]
usd_to_native_units(amount_usd, token_price_usd, decimals) ==
    LET r == usd_to_native_decimal(Dec(amount_usd, 0), Dec(token_price_usd, 0),
                                   decimals)
    IN  [raised |-> r.raised, v |-> DigitsValue(r.digits)]

\* native_to_usd: amount_native / 10^decimals * token_price_usd
native_to_usd(amount_native, token_price_usd, decimals) ==
    Rat(amount_native * token_price_usd, Pow(10, decimals))

\* native_to_usd on the digits of amount_native and the float
\* token_price_usd: the float amount_native / (10 ** decimals), an int / int
\* true division, times the float token_price_usd
native_to_usd_float(amount_native, token_price_usd, decimals) ==
    FloatTimes(RoundToFloat(amount_native, decimals, 0), token_price_usd)

\* native_to_tokens: amount_native / 10^decimals
native_to_tokens(amount_native, decimals) ==
    Rat(amount_native, Pow(10, decimals))

\* a route step: kind "dict" or "other"; swapInfo "dict", "missing" or
\* "other"; label, ammKey, percent, percentage are JSON values
Step(label, ammKey, percent, percentage) ==
    [kind |-> "dict", swapInfo |-> "dict", label |-> label,
     ammKey |-> ammKey, percent |-> percent, percentage |-> percentage]

\* the label one step contributes: swap_info.get('label',
\* swap_info.get('ammKey', 'Unknown'))
StepLabel(step) == Get(step.label, Get(step.ammKey, JStr("Unknown")))

\* the loop of parse_route_summary over the plan: the list dexes
RECURSIVE Dexes(_, _)
Dexes(plan, acc) ==
    IF plan = <<>> THEN acc
    ELSE LET step == Head(plan)
             usable == step.kind = "dict" /\ step.swapInfo \in {"dict", "missing"}
             \* a missing swapInfo is the default {}: the label is 'Unknown'
             label == IF step.swapInfo = "missing" THEN JStr("Unknown")
                      ELSE StepLabel(step)
             seen == \E i \in 1..Len(acc) : acc[i] = label
         IN  IF usable /\ Truthy(label) /\ ~seen
             THEN Dexes(Tail(plan), Append(acc, label))
             ELSE Dexes(Tail(plan), acc)

\* FirstThree with the slice dexes[:4]
FirstFour(s) == IF Len(s) <= 4 THEN s ELSE SubSeq(s, 1, 4)

\* dexes[:3]
FirstThree(s) == IF Len(s) <= 3 THEN s ELSE SubSeq(s, 1, 3)

\* parse_route_summary on a routePlan value rp = [k, plan]: [raised, v];
\* v is the sequence of labels joined by ", "
parse_route_summary(rp) ==
    IF rp.k \in {"missing", "null", "emptylist", "zero"}
    THEN [raised |-> FALSE, v |-> <<"Unknown">>]
    ELSE IF rp.k = "num"
    THEN [raised |-> TRUE, v |-> <<>>]           \* TypeError: not iterable
    ELSE IF rp.k \in {"str", "obj"}
    THEN [raised |-> FALSE, v |-> <<"Unknown">>] \* no element is a dict
    ELSE LET dexes == Dexes(rp.plan, <<>>)
             top == FirstThree(dexes)
         IN  IF dexes = <<>>
             THEN [raised |-> FALSE, v |-> <<"Unknown">>]
             ELSE IF \E i \in 1..Len(top) : top[i].k # "str"
             THEN [raised |-> TRUE, v |-> <<>>]  \* TypeError in join
             ELSE [raised |-> FALSE, v |-> [i \in 1..Len(top) |-> top[i].s]]

\* the percentage one step reports: swap_info.get('percent',
\* swap_info.get('percentage')); missing is None
StepPercent(step) ==
    IF step.swapInfo = "missing" THEN JNull
    ELSE Get(step.percent, Get(step.percentage, JNull))

\* the loop of calculate_route_concentration: [raised, v], v the list
\* percentages (in 1/100 of a percent)
RECURSIVE Percentages(_, _)
Percentages(plan, acc) ==
    IF plan = <<>> THEN [raised |-> FALSE, v |-> acc]
    ELSE LET step == Head(plan)
             usable == step.kind = "dict" /\ step.swapInfo \in {"dict", "missing"}
             percent == StepPercent(step)
         IN  IF ~usable \/ percent.k = "null"
             THEN Percentages(Tail(plan), acc)
             ELSE IF percent.k \in {"num", "numstr"}
             THEN Percentages(Tail(plan), Append(acc, percent.n))
             ELSE [raised |-> TRUE, v |-> acc]   \* float() fails

SeqMax(s) == CHOOSE m \in {s[i] : i \in 1..Len(s)} : \A i \in 1..Len(s) : s[i] <= m

\* calculate_route_concentration on a routePlan value: [raised, v], v an
\* Optional percentage
calculate_route_concentration(rp) ==
    IF rp.k \in {"missing", "null", "emptylist", "zero"}
    THEN [raised |-> FALSE, v |-> NoneN]
    ELSE IF rp.k = "num"
    THEN [raised |-> TRUE, v |-> NoneN]
    ELSE IF rp.k \in {"str", "obj"}
    THEN [raised |-> FALSE, v |-> NoneN]
    ELSE LET p == Percentages(rp.plan, <<>>)
         IN  IF p.raised THEN [raised |-> TRUE, v |-> NoneN]
             ELSE IF p.v = <<>> THEN [raised |-> FALSE, v |-> NoneN]
             ELSE [raised |-> FALSE, v |-> SomeN(SeqMax(p.v))]

\* ---------------------------------------------------- kamino_client.py
\* str.upper() on the symbols of the modelled responses
Upper(s) == CASE s = "sol" -> "SOL" [] s = "usdc" -> "USDC" [] OTHER -> s

\* a raw reserve record of the market response
RawReserve(symbol, mintAddress, mint, decimals, price, liquidityWads, depositsWads) ==
    [kind |-> "dict", symbol |-> symbol, mintAddress |-> mintAddress,
     mint |-> mint, decimals |-> decimals, assetPriceUSD |-> price,
     totalLiquidityWads |-> liquidityWads, totalDepositsWads |-> depositsWads]

\* _parse_single_reserve: <<>> for None (a skipped record, also when an
\* exception is caught), else <<reserve>>
_parse_single_reserve(reserve_data) ==
    IF reserve_data.kind # "dict" THEN <<>>
    ELSE
    LET symbolRaw == Get(reserve_data.symbol, JStr(""))
        mint_address == Get(reserve_data.mintAddress, Get(reserve_data.mint, JNull))
        decimals == Get(reserve_data.decimals, JNum(0))
        priceRaw == Get(reserve_data.assetPriceUSD, JNum(0))
        wadsRaw == Get(reserve_data.totalLiquidityWads,
                       Get(reserve_data.totalDepositsWads, JNum(0)))
    IN  IF symbolRaw.k # "str" THEN <<>>                \* no .upper()
        ELSE IF Upper(symbolRaw.s) = "" \/ ~Truthy(mint_address) THEN <<>>
        ELSE IF priceRaw.k \in {"badstr", "str"} THEN <<>>   \* float() fails
        ELSE IF wadsRaw.k \in {"badstr", "str"} THEN <<>>    \* int() fails
        ELSE IF wadsRaw.k \notin {"num", "numstr"} \/ decimals.k # "num" THEN <<>>
        ELSE IF priceRaw.k \notin {"num", "numstr"} THEN <<>>
        ELSE << [symbol |-> Upper(symbolRaw.s),
                 mint_address |-> mint_address,
                 decimals |-> decimals.n,
                 total_deposits |-> Rat(wadsRaw.n, Pow(10, decimals.n)),
                 usd_price |-> priceRaw.n,
                 tvl_usd |-> Rat(wadsRaw.n * priceRaw.n, Pow(10, decimals.n))] >>

RECURSIVE ParseEach(_)
ParseEach(recs) ==
    IF recs = <<>> THEN <<>>
    ELSE _parse_single_reserve(Head(recs)) \o ParseEach(Tail(recs))

\* _parse_reserves on market_data = [kind, reserves, nested]: reserves is
\* the array under "reserves" and nested the one under data.reserves, each
\* <<>> when absent
_parse_reserves(market_data) ==
    LET reserves_data == IF market_data.reserves # <<>> THEN market_data.reserves
                         ELSE market_data.nested
    IN  ParseEach(reserves_data)

RECURSIVE FilterSeq(_, _)
FilterSeq(reserves, symbols_upper) ==
    IF reserves = <<>> THEN <<>>
    ELSE IF Upper(Head(reserves).symbol) \in symbols_upper
         THEN <<Head(reserves)>> \o FilterSeq(Tail(reserves), symbols_upper)
         ELSE FilterSeq(Tail(reserves), symbols_upper)

\* filter_volatile_collateral
filter_volatile_collateral(reserves, asset_symbols) ==
    FilterSeq(reserves, {Upper(s) : s \in asset_symbols})

\* --------------------------------------------------- jupiter_client.py
\* FailedQuote with the price impact 0 in place of None
FailedQuote_ZeroImpact(msg) ==
    [price_impact |-> SomeN(0), out_amount |-> JNum(0), out_amount_usd |-> RatZero,
     router |-> JNull, route_summary |-> NoneL, route_concentration |-> NoneN,
     success |-> FALSE, error |-> SomeS(msg)]

\* a failed quote with the given error text
FailedQuote(msg) ==
    [price_impact |-> NoneN, out_amount |-> JNum(0), out_amount_usd |-> RatZero,
     router |-> JNull, route_summary |-> NoneL, route_concentration |-> NoneN,
     success |-> FALSE, error |-> SomeS(msg)]

\* the text of f"Parse error: {e}" by the exception caught
ParseErrorMsg(exc) ==
    CASE exc = "TypeError" -> "Parse error: TypeError"
      [] exc = "ValueError" -> "Parse error: ValueError"
      [] OTHER -> "Parse error: AttributeError"

\* a response body: kind "dict" or "other" (JSON that is no object)
Body(priceImpact, outAmount, router, routePlan) ==
    [kind |-> "dict", priceImpact |-> priceImpact, outAmount |-> outAmount,
     router |-> router, routePlan |-> routePlan]

\* _parse_quote_response (slippage_bps and route_info are passed through
\* unread and left out)
_parse_quote_response(data) ==
    IF data.kind # "dict" THEN FailedQuote(ParseErrorMsg("AttributeError"))
    ELSE
    LET pi == Get(data.priceImpact, JNum(0))
        oa == Get(data.outAmount, JNum(0))
        summary == parse_route_summary(data.routePlan)
        conc == calculate_route_concentration(data.routePlan)
    IN  IF pi.k \in {"badstr", "str"} THEN FailedQuote(ParseErrorMsg("ValueError"))
        ELSE IF pi.k \notin {"num", "numstr"} THEN FailedQuote(ParseErrorMsg("TypeError"))
        ELSE IF oa.k \in {"badstr", "str"} THEN FailedQuote(ParseErrorMsg("ValueError"))
        ELSE IF summary.raised THEN FailedQuote(ParseErrorMsg("TypeError"))
        ELSE IF conc.raised THEN FailedQuote(ParseErrorMsg("ValueError"))
        ELSE [price_impact |-> SomeN(Abs(pi.n * 100) \div 10),
              out_amount |-> IF oa.k = "numstr" THEN JNum(oa.n) ELSE oa,
              out_amount_usd |-> RatZero,
              router |-> Get(data.router, JStr("unknown")),
              route_summary |-> SomeL(summary.v),
              route_concentration |-> conc.v,
              success |-> TRUE,
              error |-> NoneS]

\* --------------------------------------------------------- analyzer.py
Flag(kind, value) == [kind |-> kind, value |-> value]

\* _identify_risk_flags without the return after QUOTE_FAILED
identify_NoEarlyReturn(reserve, liquidity_result) ==
    LET price_impact == liquidity_result.price_impact_pct
        concentration == liquidity_result.route_concentration
        swap_size == liquidity_result.swap_size_usd
        tvl == reserve.tvl_usd
        f0 == IF ~liquidity_result.success THEN <<Flag("QUOTE_FAILED", 0)>> ELSE <<>>
        f1 == IF price_impact.some /\ price_impact.v # 0
                 /\ price_impact.v > HIGH_PRICE_IMPACT_THRESHOLD * 100
              THEN <<Flag("HIGH_IMPACT", Fmt1(price_impact.v, 100))>> ELSE <<>>
        f2 == IF concentration.some /\ concentration.v # 0
                 /\ concentration.v > ROUTE_CONCENTRATION_THRESHOLD * 100
              THEN <<Flag("CONCENTRATED_ROUTE", Fmt0(concentration.v, 100))>> ELSE <<>>
    IN  IF tvl.num > 0
        THEN IF swap_size = 0
             THEN [raised |-> "ZeroDivisionError", flags |-> <<>>]
             ELSE [raised |-> "",
                   flags |-> f0 \o f1 \o f2 \o
                     (IF tvl.num < MIN_TVL_MULTIPLE * tvl.den * swap_size
                      THEN <<Flag("LOW_TVL_RATIO", Fmt1(tvl.num, tvl.den * swap_size))>>
                      ELSE <<>>)]
        ELSE [raised |-> "", flags |-> f0 \o f1 \o f2]

\* _identify_risk_flags with tvl_ratio <= MIN_TVL_MULTIPLE
identify_TvlLessEqual(reserve, liquidity_result) ==
    IF ~liquidity_result.success
    THEN [raised |-> "", flags |-> <<Flag("QUOTE_FAILED", 0)>>]
    ELSE
    LET price_impact == liquidity_result.price_impact_pct
        concentration == liquidity_result.route_concentration
        swap_size == liquidity_result.swap_size_usd
        tvl == reserve.tvl_usd
        f1 == IF price_impact.some /\ price_impact.v # 0
                 /\ price_impact.v > HIGH_PRICE_IMPACT_THRESHOLD * 100
              THEN <<Flag("HIGH_IMPACT", Fmt1(price_impact.v, 100))>> ELSE <<>>
        f2 == IF concentration.some /\ concentration.v # 0
                 /\ concentration.v > ROUTE_CONCENTRATION_THRESHOLD * 100
              THEN <<Flag("CONCENTRATED_ROUTE", Fmt0(concentration.v, 100))>> ELSE <<>>
    IN  IF tvl.num > 0
        THEN IF swap_size = 0
             THEN [raised |-> "ZeroDivisionError", flags |-> <<>>]
             ELSE [raised |-> "",
                   flags |-> f1 \o f2 \o
                     (IF tvl.num <= MIN_TVL_MULTIPLE * tvl.den * swap_size
                      THEN <<Flag("LOW_TVL_RATIO", Fmt1(tvl.num, tvl.den * swap_size))>>
                      ELSE <<>>)]
        ELSE [raised |-> "", flags |-> f1 \o f2]

\* _identify_risk_flags: [raised, flags]; raised is "" or the exception
_identify_risk_flags(reserve, liquidity_result) ==
    IF ~liquidity_result.success
    THEN [raised |-> "", flags |-> <<Flag("QUOTE_FAILED", 0)>>]
    ELSE
    LET price_impact == liquidity_result.price_impact_pct
        concentration == liquidity_result.route_concentration
        swap_size == liquidity_result.swap_size_usd
        tvl == reserve.tvl_usd
        f1 == IF price_impact.some /\ price_impact.v # 0
                 /\ price_impact.v > HIGH_PRICE_IMPACT_THRESHOLD * 100
              THEN <<Flag("HIGH_IMPACT", Fmt1(price_impact.v, 100))>> ELSE <<>>
        f2 == IF concentration.some /\ concentration.v # 0
                 /\ concentration.v > ROUTE_CONCENTRATION_THRESHOLD * 100
              THEN <<Flag("CONCENTRATED_ROUTE", Fmt0(concentration.v, 100))>> ELSE <<>>
    IN  IF tvl.num > 0
        THEN IF swap_size = 0
             THEN [raised |-> "ZeroDivisionError", flags |-> <<>>]
             ELSE [raised |-> "",
                   flags |-> f1 \o f2 \o
                     (IF tvl.num < MIN_TVL_MULTIPLE * tvl.den * swap_size
                      THEN <<Flag("LOW_TVL_RATIO", Fmt1(tvl.num, tvl.den * swap_size))>>
                      ELSE <<>>)]
        ELSE [raised |-> "", flags |-> f1 \o f2]

\* ConversionFailedPoint without the text of the exception
ConversionFailedPoint_NoError(swap_size_usd) ==
    [swap_size_usd |-> swap_size_usd, swap_size_native |-> 0,
     swap_size_tokens |-> RatZero, price_impact_pct |-> NoneN,
     output_usd |-> RatZero, effective_price |-> RatZero, router |-> JNull,
     route_summary |-> NoneL, route_concentration |-> NoneN,
     success |-> FALSE, error |-> NoneS]

\* the point of a band whose conversion to native units failed
ConversionFailedPoint(swap_size_usd) ==
    [swap_size_usd |-> swap_size_usd, swap_size_native |-> 0,
     swap_size_tokens |-> RatZero, price_impact_pct |-> NoneN,
     output_usd |-> RatZero, effective_price |-> RatZero, router |-> JNull,
     route_summary |-> NoneL, route_concentration |-> NoneN,
     success |-> FALSE, error |-> SomeS("Invalid token price")]

\* the rest of one band of analyze_liquidity_depth once the quote is back:
\* [raised, quote, point]; quote is the quote object as the band leaves it
BandPoint(swap_size_usd, amount_native, token_decimals, quote) ==
    LET swap_size_tokens == native_to_tokens(amount_native, token_decimals)
        comparable == quote.out_amount.k = "num"
        positive == quote.success /\ comparable /\ quote.out_amount.n > 0
        output_usd == IF positive
                      THEN native_to_usd(quote.out_amount.n, 1, OUTPUT_DECIMALS)
                      ELSE RatZero
        effective_price ==
            IF positive /\ swap_size_tokens.num > 0
            THEN Rat(output_usd.num * swap_size_tokens.den,
                     output_usd.den * swap_size_tokens.num)
            ELSE RatZero
    IN  [raised |-> IF quote.success /\ ~comparable THEN "TypeError" ELSE "",
         quote |-> IF positive THEN [quote EXCEPT !.out_amount_usd = output_usd]
                   ELSE quote,
         point |-> [swap_size_usd |-> swap_size_usd,
                    swap_size_native |-> amount_native,
                    swap_size_tokens |-> swap_size_tokens,
                    price_impact_pct |-> quote.price_impact,
                    output_usd |-> output_usd,
                    effective_price |-> effective_price,
                    router |-> quote.router,
                    route_summary |-> quote.route_summary,
                    route_concentration |-> quote.route_concentration,
                    success |-> quote.success,
                    error |-> quote.error]]

\* one row of all_results (timestamp and slippage_bps left out)
ReportRow(reserve, result, risk_flags) ==
    [asset_symbol |-> reserve.symbol,
     mint_address |-> reserve.mint_address,
     current_price_usd |-> reserve.usd_price,
     current_tvl_usd |-> reserve.tvl_usd,
     swap_size_usd |-> result.swap_size_usd,
     swap_size_tokens |-> result.swap_size_tokens,
     price_impact_pct |-> result.price_impact_pct,
     output_usd |-> result.output_usd,
     effective_price |-> result.effective_price,
     router |-> result.router,
     route_summary |-> result.route_summary,
     route_concentration |-> result.route_concentration,
     quote_success |-> result.success,
     error_msg |-> result.error,
     risk_flags |-> risk_flags]

\* QueryAttempt with the 429 branch sleeping backoff^attempt, the exponent
\* of the except branch
QueryAttempt_SameExponent(attempt, outcome) ==
    CASE outcome.kind = "429" ->
           [next |-> IF attempt + 1 < MAX_RETRIES THEN "retry" ELSE "return",
            sleep |-> <<Pow(RETRY_BACKOFF_FACTOR, attempt)>>,
            quote |-> IF attempt + 1 < MAX_RETRIES THEN <<>>
                      ELSE <<FailedQuote("Max retries exceeded")>>]
      [] outcome.kind \in {"error", "notjson"} ->
           IF attempt < MAX_RETRIES - 1
           THEN [next |-> "retry",
                 sleep |-> <<Pow(RETRY_BACKOFF_FACTOR, attempt)>>,
                 quote |-> <<>>]
           ELSE [next |-> "return", sleep |-> <<>>,
                 quote |-> <<FailedQuote(outcome.msg)>>]
      [] OTHER ->
           [next |-> "return", sleep |-> <<>>,
            quote |-> <<_parse_quote_response(outcome.body)>>]

\* QueryAttempt with the error of response.json() caught by no except
\* clause (an except clause for the connection errors only)
QueryAttempt_JsonErrorEscapes(attempt, outcome) ==
    CASE outcome.kind = "429" ->
           [next |-> IF attempt + 1 < MAX_RETRIES THEN "retry" ELSE "return",
            sleep |-> <<Pow(RETRY_BACKOFF_FACTOR, attempt + 1)>>,
            quote |-> IF attempt + 1 < MAX_RETRIES THEN <<>>
                      ELSE <<FailedQuote("Max retries exceeded")>>]
      [] outcome.kind = "notjson" ->
           [next |-> "ValueError", sleep |-> <<>>, quote |-> <<>>]
      [] outcome.kind = "error" ->
           IF attempt < MAX_RETRIES - 1
           THEN [next |-> "retry",
                 sleep |-> <<Pow(RETRY_BACKOFF_FACTOR, attempt)>>,
                 quote |-> <<>>]
           ELSE [next |-> "return", sleep |-> <<>>,
                 quote |-> <<FailedQuote(outcome.msg)>>]
      [] OTHER ->
           [next |-> "return", sleep |-> <<>>,
            quote |-> <<_parse_quote_response(outcome.body)>>]

\* one pass of the retry loop of query_swap_price_impact, at loop index
\* attempt (0-based), given what the GET met: [next, sleep, quote]; next is
\* "retry", "return" or the exception that leaves the call (none does),
\* sleep the seconds slept (<<>> for none), quote the
\* result returned (<<>> while retrying)
QueryAttempt(attempt, outcome) ==
    CASE outcome.kind = "429" ->
           [next |-> IF attempt + 1 < MAX_RETRIES THEN "retry" ELSE "return",
            sleep |-> <<Pow(RETRY_BACKOFF_FACTOR, attempt + 1)>>,
            quote |-> IF attempt + 1 < MAX_RETRIES THEN <<>>
                      ELSE <<FailedQuote("Max retries exceeded")>>]
      [] outcome.kind \in {"error", "notjson"} ->
           IF attempt < MAX_RETRIES - 1
           THEN [next |-> "retry",
                 sleep |-> <<Pow(RETRY_BACKOFF_FACTOR, attempt)>>,
                 quote |-> <<>>]
           ELSE [next |-> "return", sleep |-> <<>>,
                 quote |-> <<FailedQuote(outcome.msg)>>]
      [] OTHER ->
           [next |-> "return", sleep |-> <<>>,
            quote |-> <<_parse_quote_response(outcome.body)>>]

\* FetchAttempt with the last failure swallowed: the loop ends and the
\* trailing return [] is reached
FetchAttempt_NoRaise(attempt, outcome) ==
    IF outcome.kind = "error"
    THEN IF attempt < MAX_RETRIES - 1
         THEN [next |-> "retry", sleep |-> <<Pow(RETRY_BACKOFF_FACTOR, attempt)>>]
         ELSE [next |-> "return", sleep |-> <<>>]
    ELSE [next |-> IF outcome.data.kind = "dict" THEN "return" ELSE "raise",
          sleep |-> <<>>]

\* one pass of the retry loop of fetch_market_reserves: [next, sleep];
\* next is "retry", "raise" or "return"
FetchAttempt(attempt, outcome) ==
    IF outcome.kind = "error"
    THEN IF attempt < MAX_RETRIES - 1
         THEN [next |-> "retry", sleep |-> <<Pow(RETRY_BACKOFF_FACTOR, attempt)>>]
         ELSE [next |-> "raise", sleep |-> <<>>]
    ELSE [next |-> IF outcome.data.kind = "dict" THEN "return" ELSE "raise",
          sleep |-> <<>>]

\* LiquidityAnalyzer.__init__: the ladder the analyzer keeps
ConfiguredLadder(swap_sizes_arg) ==
    IF swap_sizes_arg.some /\ swap_sizes_arg.v # <<>> THEN swap_sizes_arg.v
    ELSE SWAP_SIZE_BANDS_USD

\* ------------------------------------------------------ the environment
\* route plans of the modelled answers: routePlan values [k, plan]
RpMissing == [k |-> "missing", plan |-> <<>>]
RpNull == [k |-> "null", plan |-> <<>>]
RpNum == [k |-> "num", plan |-> <<>>]
RpSplit == [k |-> "list",
            plan |-> <<Step(JStr("A"), JMissing, JNum(6000), JMissing),
                       Step(JStr("B"), JMissing, JMissing, JNumStr(4000))>>]
RpSingle == [k |-> "list",
             plan |-> <<Step(JMissing, JStr("K"), JNum(10000), JMissing)>>]

\* the nominal answer: priceImpact 0.02, outAmount "995", router "X"
GoodBody == Body(JNum(20), JNumStr(995), JStr("X"), RpSplit)
\* answers that parse
ParseableBodies ==
    { GoodBody,
      Body(JNum(-62), JNum(900), JStr("X"), RpSingle),
      Body(JNumStr(50), JNum(0), JMissing, RpNull),
      Body(JMissing, JMissing, JMissing, RpMissing) }
\* answers with a missing, null or wrongly typed field
MalformedBodies ==
    { Body(JNull, JNumStr(995), JStr("X"), RpSplit),
      Body(JBadStr, JNumStr(995), JStr("X"), RpSplit),
      Body(JNum(20), JNull, JStr("X"), RpSplit),
      Body(JNum(20), JList, JStr("X"), RpSplit),
      Body(JNum(20), JBadStr, JStr("X"), RpSplit),
      Body(JNum(20), JNumStr(995), JStr("X"), RpNum),
      [Body(JMissing, JMissing, JMissing, RpMissing) EXCEPT !.kind = "other"] }
Bodies == ParseableBodies \cup MalformedBodies

NoBody == Body(JMissing, JMissing, JMissing, RpMissing)
\* what one GET of the aggregator can meet: HTTP 429, a transport error
\* (timeout, connection error, other non-2xx status), HTTP 200 with a body
\* that is no JSON (response.json() raises requests' JSONDecodeError, a
\* RequestException), HTTP 200 with a JSON body
Outcome(kind, msg, body) == [kind |-> kind, msg |-> msg, body |-> body]
NominalOutcome == Outcome("200", "", GoodBody)
JupiterOutcomes ==
    { Outcome("429", "429 Too Many Requests", NoBody),
      Outcome("error", "ConnectTimeout", NoBody),
      Outcome("error", "500 Server Error", NoBody),
      Outcome("notjson", "JSONDecodeError", NoBody) }
    \cup { Outcome("200", "", b) : b \in Bodies }

\* reserve records of the market response
RawSOL == RawReserve(JStr("SOL"), JStr("So11"), JMissing, JNum(1), JNum(2),
                     JNumStr(500), JMissing)
RawZeroPrice == RawReserve(JStr("sol"), JMissing, JStr("So12"), JMissing,
                           JMissing, JMissing, JNum(70))
RawStable == RawReserve(JStr("USDC"), JStr("EPjF"), JMissing, JNum(1), JNum(1),
                        JNum(900), JMissing)
RawNoSymbol == RawReserve(JMissing, JStr("So13"), JMissing, JNum(1), JNum(2),
                          JNum(500), JMissing)
RawReserves == {RawSOL, RawZeroPrice, RawStable, RawNoSymbol}

RECURSIVE SeqsUpTo(_, _)
SeqsUpTo(S, n) ==
    IF n = 0 THEN {<<>>}
    ELSE LET shorter == SeqsUpTo(S, n - 1)
         IN  shorter \cup {Append(q, x) : q \in shorter, x \in S}

MarketData(kind, reserves, nested) ==
    [kind |-> kind, reserves |-> reserves, nested |-> nested]
\* what one GET of the market can meet: a transport error, or HTTP 200
\* with the records under "reserves", under data.reserves, or a JSON body
\* that is no object
KaminoOutcomes ==
    { [kind |-> "error", data |-> MarketData("dict", <<>>, <<>>)],
      [kind |-> "200", data |-> MarketData("other", <<>>, <<>>)] }
    \cup { [kind |-> "200", data |-> MarketData("dict", recs, <<>>)] :
             recs \in SeqsUpTo(RawReserves, MaxRecords) }
    \cup { [kind |-> "200", data |-> MarketData("dict", <<>>, recs)] :
             recs \in SeqsUpTo(RawReserves, MaxRecords) }

\* the ladders handed to LiquidityAnalyzer (None, empty, with a zero band,
\* unsorted, with a repeated band)
SwapSizeArgs == {NoneL, SomeL(<<>>), SomeL(<<0, 5>>), SomeL(<<50, 1>>), SomeL(<<4, 4>>)}

NotRaised == [exc |-> "", where |-> ""]

\* ---------------------------------------------------------------- state
VARIABLES
    pc,               \* where the run is: "fetch", "band", "query", "point",
                      \* "rows", "done", "raised"; "flags", "flagged" for
                      \* the evaluation of _identify_risk_flags alone
    swap_sizes_usd,   \* LiquidityAnalyzer.swap_sizes_usd
    kaminoGets,       \* GETs of fetch_market_reserves so far
    kaminoSleeps,     \* its backoff sleeps, in seconds
    kaminoErrors,     \* its GETs that met a transport error
    volatile_reserves,
    ri,               \* index of the reserve under analysis
    results,          \* analyze_liquidity_depth: the points so far
    bi,               \* index of the band under analysis
    amount_native,
    attempt,          \* query_swap_price_impact: loop index = GETs so far
    callSleeps,       \* the sleeps of the current call, in seconds
    callOutcomes,     \* what the GETs of the current call met
    quote,            \* <<>> or the result the current call returned
    all_results,      \* the report rows
    row,              \* index of the point being flattened
    raised,           \* the exception that left generate_liquidity_report
    jupiterGets,      \* aggregator GETs of the run
    pacing,           \* pacing delays of the run
    deviations,       \* calls so far that met another answer than the nominal
    deviating,        \* the current call is one of them
    flag_in,          \* [reserve, point] handed to _identify_risk_flags
    flag_out,         \* what it returned
    call_in,          \* the arguments of a helper of utils.py or of
                      \* _parse_quote_response, evaluated on its own
    call_out          \* what it returned

runVars == <<pc, swap_sizes_usd, kaminoGets, kaminoSleeps, kaminoErrors,
             volatile_reserves,
             ri, results, bi, amount_native, attempt, callSleeps, callOutcomes,
             quote, all_results, row, raised, jupiterGets, pacing, deviations,
             deviating>>
\* the state of the run but its position
dataVars == <<swap_sizes_usd, kaminoGets, kaminoSleeps, kaminoErrors,
              volatile_reserves,
              ri, results, bi, amount_native, attempt, callSleeps, callOutcomes,
              quote, all_results, row, raised, jupiterGets, pacing, deviations,
              deviating>>
flagVars == <<flag_in, flag_out>>
callVars == <<call_in, call_out>>
vars == <<runVars, flagVars, callVars>>

\* a reserve with the TVL t and a point, as _identify_risk_flags reads them
FlagReserve(t) ==
    [symbol |-> "SOL", mint_address |-> JStr("So11"), decimals |-> 0,
     total_deposits |-> Rat(t, 1), usd_price |-> 1, tvl_usd |-> Rat(t, 1)]
FlagPoint(swap_size_usd, success, price_impact_pct, route_concentration) ==
    [ConversionFailedPoint(swap_size_usd) EXCEPT
       !.success = success,
       !.error = IF success THEN NoneS ELSE SomeS("ConnectTimeout"),
       !.price_impact_pct = price_impact_pct,
       !.route_concentration = route_concentration]
\* TVL and swap sizes in millions of USD; percentages in 1/100 of a percent
FlagTvls == {0, 5, 9, 10, 25}
FlagSizes == {0, 1, 2, 3, 4, 5}
FlagImpacts == {NoneN, SomeN(0), SomeN(490), SomeN(500), SomeN(501), SomeN(620)}
FlagConcentrations == {NoneN, SomeN(7000), SomeN(10000)}

NoFlagIn == [reserve |-> FlagReserve(0), point |-> ConversionFailedPoint(0)]
NoFlagOut == [raised |-> "", flags |-> <<>>]
NoCall == [f |-> ""]

\* LiquidityAnalyzer(swap_sizes_usd = arg).generate_liquidity_report()
Init ==
    /\ \E arg \in SwapSizeArgs : swap_sizes_usd = ConfiguredLadder(arg)
    /\ pc = "fetch"
    /\ kaminoGets = 0 /\ kaminoSleeps = <<>> /\ kaminoErrors = 0
    /\ volatile_reserves = <<>> /\ ri = 0
    /\ results = <<>> /\ bi = 0 /\ amount_native = 0
    /\ attempt = 0 /\ callSleeps = <<>> /\ callOutcomes = <<>> /\ quote = <<>>
    /\ all_results = <<>> /\ row = 0
    /\ raised = NotRaised
    /\ jupiterGets = 0 /\ pacing = 0 /\ deviations = 0 /\ deviating = FALSE
    /\ flag_in = NoFlagIn /\ flag_out = NoFlagOut
    /\ call_in = NoCall /\ call_out = NoCall

\* one GET of fetch_market_reserves and what follows it up to the next GET
KaminoGet ==
    /\ pc = "fetch"
    /\ \E outcome \in KaminoOutcomes :
         LET step == FetchAttempt(kaminoGets, outcome)
             all_reserves == _parse_reserves(outcome.data)
             filtered == filter_volatile_collateral(all_reserves, VOLATILE_ASSETS)
         IN  /\ kaminoGets' = kaminoGets + 1
             /\ kaminoSleeps' = kaminoSleeps \o step.sleep
             /\ kaminoErrors' = IF outcome.kind = "error" THEN kaminoErrors + 1
                                ELSE kaminoErrors
             /\ raised' = IF step.next # "raise" THEN raised
                          ELSE IF outcome.kind = "error"
                          THEN [exc |-> "RequestException",
                                where |-> "fetch_market_reserves"]
                          ELSE [exc |-> "AttributeError",
                                where |-> "fetch_market_reserves"]
             /\ volatile_reserves' = IF step.next = "return" THEN filtered
                                     ELSE volatile_reserves
             /\ pc' = CASE step.next = "retry" -> "fetch"
                        [] step.next = "raise" -> "raised"
                        [] OTHER -> IF filtered = <<>> THEN "done" ELSE "band"
             /\ ri' = IF step.next = "return" /\ filtered # <<>> THEN 1 ELSE ri
             /\ bi' = IF step.next = "return" /\ filtered # <<>> THEN 1 ELSE bi
    /\ UNCHANGED <<swap_sizes_usd, results, amount_native, attempt, callSleeps,
                   callOutcomes, quote, all_results, row, jupiterGets, pacing,
                   deviations, deviating, flagVars, callVars>>

\* AfterPoint with the band loop one band short
AfterPoint_OffByOne == IF bi + 1 < Len(swap_sizes_usd) THEN "band" ELSE "rows"

\* where analyze_liquidity_depth goes once the point of band bi is appended
AfterPoint == IF bi + 1 <= Len(swap_sizes_usd) THEN "band" ELSE "rows"

\* top of the band loop: the conversion of the band to native units
ConvertBand ==
    /\ pc = "band"
    /\ LET reserve == volatile_reserves[ri]
           swap_size_usd == swap_sizes_usd[bi]
           conv == usd_to_native_units(swap_size_usd, reserve.usd_price,
                                       reserve.decimals)
       IN  IF conv.raised
           THEN /\ results' = Append(results, ConversionFailedPoint(swap_size_usd))
                /\ pc' = AfterPoint
                /\ bi' = IF AfterPoint = "band" THEN bi + 1 ELSE bi
                /\ row' = IF AfterPoint = "rows" THEN 1 ELSE row
                /\ UNCHANGED <<amount_native, attempt, callSleeps, callOutcomes,
                               quote, deviating>>
           ELSE /\ amount_native' = conv.v
                /\ pc' = "query"
                /\ attempt' = 0 /\ callSleeps' = <<>> /\ callOutcomes' = <<>>
                /\ quote' = <<>> /\ deviating' = FALSE
                /\ UNCHANGED <<results, bi, row>>
    /\ UNCHANGED <<swap_sizes_usd, kaminoGets, kaminoSleeps, kaminoErrors,
                   volatile_reserves,
                   ri, all_results, raised, jupiterGets, pacing, deviations,
                   flagVars, callVars>>

\* one GET of query_swap_price_impact and what follows it up to the next
\* GET or the return
JupiterGet ==
    /\ pc = "query"
    /\ \E outcome \in JupiterOutcomes :
         LET step == QueryAttempt(attempt, outcome)
             nominal == outcome = NominalOutcome /\ attempt = 0
         IN  /\ nominal \/ deviating \/ deviations < MaxDeviatingCalls
             /\ deviating' = (deviating \/ ~nominal)
             /\ deviations' = IF ~nominal /\ ~deviating THEN deviations + 1
                              ELSE deviations
             /\ attempt' = attempt + 1
             /\ jupiterGets' = jupiterGets + 1
             /\ callOutcomes' = Append(callOutcomes, outcome)
             /\ callSleeps' = callSleeps \o step.sleep
             /\ quote' = step.quote
             /\ pc' = CASE step.next = "retry" -> "query"
                        [] step.next = "return" -> "point"
                        [] OTHER -> "raised"
             /\ raised' = IF step.next \in {"retry", "return"} THEN raised
                          ELSE [exc |-> step.next,
                                where |-> "query_swap_price_impact"]
    /\ UNCHANGED <<swap_sizes_usd, kaminoGets, kaminoSleeps, kaminoErrors,
                   volatile_reserves,
                   ri, results, bi, amount_native, all_results, row, pacing,
                   flagVars, callVars>>

\* BuildPoint with the pacing delay only after a successful quote
BuildPoint_PacingOnSuccess ==
    /\ pc = "point"
    /\ LET reserve == volatile_reserves[ri]
           built == BandPoint(swap_sizes_usd[bi], amount_native,
                              reserve.decimals, quote[1])
       IN  IF built.raised # ""
           THEN /\ raised' = [exc |-> built.raised,
                              where |-> "analyze_liquidity_depth"]
                /\ pc' = "raised"
                /\ UNCHANGED <<results, quote, pacing, bi, row>>
           ELSE /\ quote' = <<built.quote>>
                /\ results' = Append(results, built.point)
                /\ pacing' = IF quote[1].success THEN pacing + 1 ELSE pacing
                /\ pc' = AfterPoint
                /\ bi' = IF AfterPoint = "band" THEN bi + 1 ELSE bi
                /\ row' = IF AfterPoint = "rows" THEN 1 ELSE row
                /\ UNCHANGED raised
    /\ UNCHANGED <<swap_sizes_usd, kaminoGets, kaminoSleeps, kaminoErrors,
                   volatile_reserves,
                   ri, amount_native, attempt, callSleeps, callOutcomes,
                   all_results, jupiterGets, deviations, deviating, flagVars, callVars>>

\* the band once its quote is back: the point, the pacing delay
BuildPoint ==
    /\ pc = "point"
    /\ LET reserve == volatile_reserves[ri]
           built == BandPoint(swap_sizes_usd[bi], amount_native,
                              reserve.decimals, quote[1])
       IN  IF built.raised # ""
           THEN /\ raised' = [exc |-> built.raised,
                              where |-> "analyze_liquidity_depth"]
                /\ pc' = "raised"
                /\ UNCHANGED <<results, quote, pacing, bi, row>>
           ELSE /\ quote' = <<built.quote>>
                /\ results' = Append(results, built.point)
                /\ pacing' = pacing + 1
                /\ pc' = AfterPoint
                /\ bi' = IF AfterPoint = "band" THEN bi + 1 ELSE bi
                /\ row' = IF AfterPoint = "rows" THEN 1 ELSE row
                /\ UNCHANGED raised
    /\ UNCHANGED <<swap_sizes_usd, kaminoGets, kaminoSleeps, kaminoErrors,
                   volatile_reserves,
                   ri, amount_native, attempt, callSleeps, callOutcomes,
                   all_results, jupiterGets, deviations, deviating, flagVars, callVars>>

\* one pass of the loop over liquidity_results: the flags and the row
AssembleRow ==
    /\ pc = "rows"
    /\ LET reserve == volatile_reserves[ri]
           result == results[row]
           risk == _identify_risk_flags(reserve, result)
           last == row = Len(results)
           more == ri + 1 <= Len(volatile_reserves)
       IN  IF risk.raised # ""
           THEN /\ raised' = [exc |-> risk.raised, where |-> "_identify_risk_flags"]
                /\ pc' = "raised"
                /\ UNCHANGED <<all_results, row, ri, bi, results>>
           ELSE /\ all_results' = Append(all_results,
                                         ReportRow(reserve, result, risk.flags))
                /\ pc' = IF ~last THEN "rows" ELSE IF more THEN "band" ELSE "done"
                /\ row' = IF last THEN row ELSE row + 1
                /\ ri' = IF last /\ more THEN ri + 1 ELSE ri
                /\ bi' = IF last /\ more THEN 1 ELSE bi
                /\ results' = IF last /\ more THEN <<>> ELSE results
                /\ UNCHANGED raised
    /\ UNCHANGED <<swap_sizes_usd, kaminoGets, kaminoSleeps, kaminoErrors,
                   volatile_reserves,
                   amount_native, attempt, callSleeps, callOutcomes, quote,
                   jupiterGets, pacing, deviations, deviating, flagVars, callVars>>

\* _identify_risk_flags on its own: the inputs are drawn at the start
InitFlags ==
    /\ pc = "flags"
    /\ swap_sizes_usd = SWAP_SIZE_BANDS_USD
    /\ kaminoGets = 0 /\ kaminoSleeps = <<>> /\ kaminoErrors = 0
    /\ volatile_reserves = <<>> /\ ri = 0
    /\ results = <<>> /\ bi = 0 /\ amount_native = 0
    /\ attempt = 0 /\ callSleeps = <<>> /\ callOutcomes = <<>> /\ quote = <<>>
    /\ all_results = <<>> /\ row = 0
    /\ raised = NotRaised
    /\ jupiterGets = 0 /\ pacing = 0 /\ deviations = 0 /\ deviating = FALSE
    /\ \E t \in FlagTvls, size \in FlagSizes, success \in BOOLEAN,
          impact \in FlagImpacts, conc \in FlagConcentrations :
         flag_in = [reserve |-> FlagReserve(t),
                    point |-> FlagPoint(size, success, impact, conc)]
    /\ flag_out = NoFlagOut
    /\ call_in = NoCall /\ call_out = NoCall

EvaluateFlags ==
    /\ pc = "flags"
    /\ pc' = "flagged"
    /\ flag_out' = _identify_risk_flags(flag_in.reserve, flag_in.point)
    /\ UNCHANGED <<swap_sizes_usd, kaminoGets, kaminoSleeps, kaminoErrors,
                   volatile_reserves, ri, results, bi, amount_native, attempt,
                   callSleeps, callOutcomes, quote, all_results, row, raised,
                   jupiterGets, pacing, deviations, deviating, flag_in,
                   callVars>>

NextFlags == EvaluateFlags

SpecFlags == InitFlags /\ [][NextFlags]_vars

\* the state of a run that has not started
IdleRun ==
    /\ swap_sizes_usd = SWAP_SIZE_BANDS_USD
    /\ kaminoGets = 0 /\ kaminoSleeps = <<>> /\ kaminoErrors = 0
    /\ volatile_reserves = <<>> /\ ri = 0
    /\ results = <<>> /\ bi = 0 /\ amount_native = 0
    /\ attempt = 0 /\ callSleeps = <<>> /\ callOutcomes = <<>> /\ quote = <<>>
    /\ all_results = <<>> /\ row = 0
    /\ raised = NotRaised
    /\ jupiterGets = 0 /\ pacing = 0 /\ deviations = 0 /\ deviating = FALSE
    /\ flag_in = NoFlagIn /\ flag_out = NoFlagOut

\* the arguments of usd_to_native_units: amounts 0, 1, 5, 0.25, 0.3, 1e6,
\* 1e8 and 2e10 USD, prices -5, 0, 1, 2, 3, 7, 200, 0.003 and 0.000006 USD
ConvertAmounts ==
    {Dec(0, 0), Dec(1, 0), Dec(5, 0), Dec(25, -2), Dec(3, -1), Dec(1, 6),
     Dec(1, 8), Dec(2, 10)}
ConvertPrices ==
    {Dec(-5, 0), Dec(0, 0), Dec(1, 0), Dec(2, 0), Dec(3, 0), Dec(7, 0),
     Dec(200, 0), Dec(3, -3), Dec(6, -6)}
ConvertDecimals == {0, 6, 9, 18}

\* usd_to_native_units and native_to_usd on their own
InitConvert ==
    /\ pc = "convert"
    /\ IdleRun
    /\ \E a \in ConvertAmounts, p \in ConvertPrices, d \in ConvertDecimals :
         call_in = [amount_usd |-> a, token_price_usd |-> p, decimals |-> d]
    /\ call_out = NoCall

\* native = usd_to_native_units(amount_usd, token_price_usd, decimals), then
\* native_to_usd(native, token_price_usd, decimals)
EvaluateConvert ==
    /\ pc = "convert"
    /\ pc' = "converted"
    /\ LET native == usd_to_native_decimal(call_in.amount_usd,
                                           call_in.token_price_usd,
                                           call_in.decimals)
       IN  call_out' =
             [native |-> native,
              back |-> IF native.raised THEN FloatZero
                       ELSE native_to_usd_float(native.digits,
                                                FloatOf(call_in.token_price_usd),
                                                call_in.decimals)]
    /\ UNCHANGED <<dataVars, flagVars, call_in>>

NextConvert == EvaluateConvert

SpecConvert == InitConvert /\ [][NextConvert]_vars

\* route steps: venues A, B, C, D named by label, with the percentage
\* under percent, under percentage (as text), under neither, under both; a
\* step named by ammKey whose percent is null and whose percentage is 50;
\* a step whose label is null; a step without swapInfo; a step that is no
\* object
StepA == Step(JStr("A"), JMissing, JNum(6000), JMissing)
StepB == Step(JStr("B"), JMissing, JMissing, JNumStr(4000))
StepC == Step(JStr("C"), JMissing, JMissing, JMissing)
StepD == Step(JStr("D"), JStr("K"), JNum(2500), JNum(9000))
StepAmmKey == Step(JMissing, JStr("K"), JNull, JNum(5000))
StepNullLabel == Step(JNull, JStr("L"), JNum(0), JMissing)
StepBare == [Step(JMissing, JMissing, JMissing, JMissing) EXCEPT !.swapInfo = "missing"]
StepOther == [Step(JMissing, JMissing, JMissing, JMissing) EXCEPT !.kind = "other"]
RouteSteps == {StepA, StepB, StepC, StepD, StepAmmKey, StepNullLabel, StepBare,
               StepOther}

\* the routePlan value that holds the steps of plan
RoutePlan(plan) ==
    [k |-> IF plan = <<>> THEN "emptylist" ELSE "list", plan |-> plan]

\* parse_route_summary and calculate_route_concentration on their own
InitRoute ==
    /\ pc = "route"
    /\ IdleRun
    /\ \E plan \in SeqsUpTo(RouteSteps, MaxSteps) :
         call_in = [route_plan |-> RoutePlan(plan)]
    /\ call_out = NoCall

EvaluateRoute ==
    /\ pc = "route"
    /\ pc' = "routed"
    /\ call_out' =
         [route_summary |-> parse_route_summary(call_in.route_plan),
          route_concentration |-> calculate_route_concentration(call_in.route_plan)]
    /\ UNCHANGED <<dataVars, flagVars, call_in>>

NextRoute == EvaluateRoute

SpecRoute == InitRoute /\ [][NextRoute]_vars

\* further reserve records: the mint under "mint" with a null mintAddress,
\* no mint at all, an empty symbol, a price that is no number, a record
\* that is no object
RawNullMintAddress == RawReserve(JStr("WBTC"), JNull, JStr("3NZ9"), JNum(1),
                                 JNum(2), JNum(500), JMissing)
RawNoMint == RawReserve(JStr("WETH"), JMissing, JMissing, JNum(1), JNum(2),
                        JNum(500), JMissing)
RawEmptySymbol == RawReserve(JStr(""), JStr("So14"), JMissing, JNum(1), JNum(2),
                             JNum(500), JMissing)
RawBadPrice == RawReserve(JStr("MSOL"), JStr("mSoL"), JMissing, JNum(1), JBadStr,
                          JNum(500), JMissing)
RawOther == [RawNoMint EXCEPT !.kind = "other"]
ParseRecords == RawReserves \cup {RawNullMintAddress, RawNoMint, RawEmptySymbol,
                                  RawBadPrice, RawOther}

\* _parse_reserves on its own, for both shapes of the response
InitParse ==
    /\ pc = "parse"
    /\ IdleRun
    /\ \E recs \in SeqsUpTo(ParseRecords, MaxRecords), nested \in BOOLEAN :
         call_in = [market_data |->
                      IF nested THEN MarketData("dict", <<>>, recs)
                      ELSE MarketData("dict", recs, <<>>)]
    /\ call_out = NoCall

EvaluateParse ==
    /\ pc = "parse"
    /\ pc' = "parsed"
    /\ call_out' = [reserves |-> _parse_reserves(call_in.market_data)]
    /\ UNCHANGED <<dataVars, flagVars, call_in>>

NextParse == EvaluateParse

SpecParse == InitParse /\ [][NextParse]_vars

Next == KaminoGet \/ ConvertBand \/ JupiterGet \/ BuildPoint \/ AssembleRow

Spec == Init /\ [][Next]_vars

\* ----------------------------------------------------------- properties
OutcomeKinds == [i \in 1..Len(callOutcomes) |-> callOutcomes[i].kind]
FlagsOfKind(flags, kind) == {i \in 1..Len(flags) : flags[i].kind = kind}

\* C1: a call whose first k GETs (k < MAX_RETRIES) met HTTP 429 and whose
\* next GET met HTTP 200 with a body that parses has returned a successful
\* result after exactly k+1 GETs and exactly k sleeps, of 2^1 .. 2^k s
C1_RateLimitedThenSuccess ==
    LET n == Len(callOutcomes)
    IN  ( /\ n >= 1 /\ n - 1 < MAX_RETRIES
          /\ \A i \in 1..(n - 1) : callOutcomes[i].kind = "429"
          /\ callOutcomes[n].kind = "200"
          /\ callOutcomes[n].body \in ParseableBodies )
        => /\ pc # "query"
           /\ quote # <<>> /\ quote[1].success
           /\ attempt = n
           /\ callSleeps = [i \in 1..(n - 1) |-> Pow(2, i)]

\* a call met 429, 429, 200 and returned success after GETs 1, 2, 3 and the
\* two sleeps 2 s and 4 s
C1_Witness ==
    /\ OutcomeKinds = <<"429", "429", "200">>
    /\ callOutcomes[3].body = GoodBody
    /\ quote # <<>> /\ quote[1].success
    /\ attempt = 3
    /\ callSleeps = <<2, 4>>

\* C2: whatever the GETs of a call meet, the call makes at most MAX_RETRIES
\* GETs, loops only while below that number, raises nothing, and what it
\* returns is a result: success, or failure with an error text
C2_BoundedAttemptsThenResult ==
    /\ attempt <= MAX_RETRIES
    /\ (pc = "query" => attempt < MAX_RETRIES /\ quote = <<>>)
    /\ (pc = "point" => /\ quote # <<>>
                        /\ attempt >= 1
                        /\ (quote[1].success \/ quote[1].error.some))
    /\ raised.where # "query_swap_price_impact"

\* a call that met 429, a body that is no JSON and a timeout, and returned
\* a failed result after MAX_RETRIES GETs
C2_Witness ==
    /\ pc = "point"
    /\ OutcomeKinds = <<"429", "notjson", "error">>
    /\ attempt = MAX_RETRIES
    /\ ~quote[1].success /\ quote[1].error.some

\* C3: no answer of the aggregator makes the run raise; a failed pair is a
\* row with quote_success false and an error text, and a finished run has
\* a row for every band of every reserve
C3_QuoteFailureIsData ==
    /\ raised.where \notin {"query_swap_price_impact", "analyze_liquidity_depth"}
    /\ \A i \in 1..Len(all_results) :
         ~all_results[i].quote_success => all_results[i].error_msg.some
    /\ (pc = "done" =>
          Len(all_results) = Len(volatile_reserves) * Len(swap_sizes_usd))

\* C4: when every GET of the reserve fetch meets a transport error, the
\* fetch makes exactly MAX_RETRIES GETs and raises, the run ends with that
\* error, and the run issues no aggregator GET
C4_FetchExhaustedRaises ==
    /\ kaminoGets <= MAX_RETRIES
    /\ (kaminoErrors = kaminoGets /\ kaminoGets < MAX_RETRIES => pc = "fetch")
    /\ (kaminoErrors = MAX_RETRIES =>
          /\ kaminoGets = MAX_RETRIES
          /\ pc = "raised"
          /\ raised = [exc |-> "RequestException", where |-> "fetch_market_reserves"])
    /\ (raised.where = "fetch_market_reserves" \/ pc = "fetch" =>
          jupiterGets = 0 /\ all_results = <<>>)

\* three failed GETs of the market, the error raised, no aggregator GET
C4_Witness ==
    /\ kaminoErrors = 3 /\ kaminoGets = 3
    /\ kaminoSleeps = <<1, 2>>
    /\ pc = "raised" /\ raised.exc = "RequestException"
    /\ jupiterGets = 0

\* C5: within one call the backoff sleeps are strictly increasing in the
\* order of the attempts
C5_SleepsStrictlyIncreasing ==
    \A i, j \in 1..Len(callSleeps) : i < j => callSleeps[i] < callSleeps[j]

\* the text of the failure a GET met: the message of the exception, the
\* status line of a 429, the parse error of a body
FailureText(outcome) ==
    IF outcome.kind = "200" THEN _parse_quote_response(outcome.body).error.v
    ELSE outcome.msg

\* C6: a call that used all MAX_RETRIES GETs without a success returns the
\* message of the failure its last GET met
C6_ErrorIsLastFailure ==
    (quote # <<>> /\ attempt = MAX_RETRIES /\ ~quote[1].success)
    => quote[1].error = SomeS(FailureText(callOutcomes[MAX_RETRIES]))

\* C7: a finished run has |R| x |S| rows, R the filtered reserves and S the
\* ladder the analyzer holds; row (i-1)*|S| + j is reserve R[i] at band
\* S[j]; a band whose conversion failed (price <= 0) has a failed row
C7_RowsReserveThenSize ==
    pc = "done" =>
      LET R == volatile_reserves
          S == swap_sizes_usd
      IN  /\ Len(all_results) = Len(R) * Len(S)
          /\ \A i \in 1..Len(R), j \in 1..Len(S) :
               LET r == all_results[(i - 1) * Len(S) + j]
               IN  /\ r.asset_symbol = R[i].symbol
                   /\ r.mint_address = R[i].mint_address
                   /\ r.current_price_usd = R[i].usd_price
                   /\ r.swap_size_usd = S[j]
                   /\ (R[i].usd_price <= 0 =>
                         ~r.quote_success /\ r.error_msg.some)

\* a finished run over a reserve without a price and one with a price, with
\* a ladder of two bands: four rows
C7_Witness ==
    /\ pc = "done"
    /\ Len(volatile_reserves) = 2
    /\ volatile_reserves[1].usd_price = 0
    /\ volatile_reserves[2].usd_price > 0
    /\ swap_sizes_usd = <<50, 1>>
    /\ Len(all_results) = 4
    /\ all_results[4].quote_success

\* C8: _identify_risk_flags returns exactly [QUOTE_FAILED] for a failed
\* point and no QUOTE_FAILED for a successful one, so QUOTE_FAILED never
\* comes with another flag
C8_QuoteFailedExclusive ==
    pc = "flagged" =>
      LET flags == flag_out.flags
      IN  /\ (~flag_in.point.success =>
                flag_out.raised = "" /\ flags = <<Flag("QUOTE_FAILED", 0)>>)
          /\ (flag_in.point.success => FlagsOfKind(flags, "QUOTE_FAILED") = {})
          /\ (FlagsOfKind(flags, "QUOTE_FAILED") # {} => Len(flags) = 1)

\* a failed point that meets the rules of all three other flags
C8_Witness ==
    /\ pc = "flagged"
    /\ ~flag_in.point.success
    /\ flag_in.point.price_impact_pct = SomeN(620)
    /\ flag_in.point.route_concentration = SomeN(10000)
    /\ flag_in.reserve.tvl_usd = Rat(10, 1) /\ flag_in.point.swap_size_usd = 5
    /\ flag_out.flags = <<Flag("QUOTE_FAILED", 0)>>

\* tvl_usd / swap_size_usd < 5
RatioBelowFive(tvl, size) == size # 0 /\ tvl.num < 5 * tvl.den * size

\* C9 as stated: for a successful point LOW_TVL_RATIO is emitted exactly
\* when tvl_usd > 0 and tvl_usd / swap_size_usd < 5, and the flag carries
\* that ratio
C9_LowTvlRatioExact ==
    (pc = "flagged" /\ flag_in.point.success) =>
      LET tvl == flag_in.reserve.tvl_usd
          size == flag_in.point.swap_size_usd
          low == FlagsOfKind(flag_out.flags, "LOW_TVL_RATIO")
      IN  /\ (low # {} <=> tvl.num > 0 /\ RatioBelowFive(tvl, size))
          /\ \A i \in low :
               flag_out.flags[i].value * tvl.den * size = 10 * tvl.num

\* C9, amended: for a successful point LOW_TVL_RATIO is emitted exactly
\* when tvl_usd > 0 and tvl_usd / swap_size_usd < 5, once, and the flag
\* carries that ratio rounded to one decimal place; TVL 10 at size 5 gives
\* 2.0 and a ratio of exactly 5 gives no flag
C9_LowTvlRatioRounded ==
    (pc = "flagged" /\ flag_in.point.success) =>
      LET tvl == flag_in.reserve.tvl_usd
          size == flag_in.point.swap_size_usd
          flags == flag_out.flags
          low == FlagsOfKind(flags, "LOW_TVL_RATIO")
      IN  /\ (low # {} <=> tvl.num > 0 /\ RatioBelowFive(tvl, size))
          /\ Cardinality(low) <= 1
          /\ \A i \in low :
               2 * Abs(flags[i].value * tvl.den * size - 10 * tvl.num)
                 <= tvl.den * size
          /\ (tvl = Rat(10, 1) /\ size = 5 =>
                \E i \in low : flags[i].value = 20)
          /\ (tvl.num = 5 * tvl.den * size => low = {})

\* TVL 9 at size 4: the ratio 2.25 is flagged as 2.2
C9_Witness ==
    /\ pc = "flagged" /\ flag_in.point.success
    /\ flag_in.reserve.tvl_usd = Rat(9, 1) /\ flag_in.point.swap_size_usd = 4
    /\ \E i \in 1..Len(flag_out.flags) :
         flag_out.flags[i] = Flag("LOW_TVL_RATIO", 22)

\* C10: for a successful point HIGH_IMPACT is emitted exactly when
\* price_impact_pct is present and above 5.0
C10_HighImpactIff ==
    (pc = "flagged" /\ flag_in.point.success) =>
      LET impact == flag_in.point.price_impact_pct
      IN  FlagsOfKind(flag_out.flags, "HIGH_IMPACT") # {}
            <=> (impact.some /\ impact.v > 500)

\* C11: with a ladder that holds the band 0 the run never ends in a
\* division by zero, and every row of the band 0 has effective_price 0
C11_ZeroSizeNeverCrashes ==
    (\E j \in 1..Len(swap_sizes_usd) : swap_sizes_usd[j] = 0) =>
      /\ raised.exc # "ZeroDivisionError"
      /\ \A i \in 1..Len(all_results) :
           all_results[i].swap_size_usd = 0 =>
             all_results[i].effective_price = RatZero

\* C12 as stated: every row of a reserve parsed with an absent or zero
\* price has tvl 0 and an empty risk_flags list
C12_ZeroPriceNoFlags ==
    \A i \in 1..Len(all_results) :
      all_results[i].current_price_usd = 0 =>
        /\ all_results[i].current_tvl_usd.num = 0
        /\ all_results[i].risk_flags = <<>>

\* C12, amended: every row of a reserve parsed with an absent or zero price
\* has tvl 0, is a failed row that carries the conversion error, and its
\* risk_flags list is exactly [QUOTE_FAILED]: no impact, concentration or
\* TVL flag is ever emitted for it
C12_ZeroPriceOnlyQuoteFailed ==
    \A i \in 1..Len(all_results) :
      all_results[i].current_price_usd = 0 =>
        /\ all_results[i].current_tvl_usd.num = 0
        /\ ~all_results[i].quote_success
        /\ all_results[i].error_msg = SomeS("Invalid token price")
        /\ all_results[i].risk_flags = <<Flag("QUOTE_FAILED", 0)>>

\* a finished run over a reserve without a price: a row per band, each
\* flagged QUOTE_FAILED, and no aggregator GET
C12_Witness ==
    /\ pc = "done"
    /\ Len(volatile_reserves) = 1 /\ volatile_reserves[1].usd_price = 0
    /\ volatile_reserves[1].total_deposits.num > 0
    /\ Len(all_results) = 2
    /\ all_results[2].risk_flags = <<Flag("QUOTE_FAILED", 0)>>
    /\ jupiterGets = 0

\* floor(amount * 10^decimals / price), digit by digit without rounding
ExactFloor(amount, price, decimals) ==
    LET x == amount.e - price.e + decimals
        q == IntDigits(amount.m \div price.m)
    IN  IF x >= 0
        THEN StripZeros(q \o LongDivision(amount.m % price.m, price.m, x).digits)
        ELSE IF -x >= Len(q) THEN <<>>
        ELSE SubSeq(q, 1, Len(q) + x)

\* C13: usd_to_native_units raises the invalid-price error, and returns no
\* value, exactly when token_price_usd <= 0, whatever the amount and the
\* decimals; for a price > 0 it returns an integer
C13_InvalidPriceIffNotPositive ==
    pc = "converted" =>
      LET native == call_out.native
      IN  /\ native.raised <=> call_in.token_price_usd.m <= 0
          /\ native.raised => native.digits = <<>>
          /\ ~native.raised =>
                /\ \A i \in 1..Len(native.digits) : native.digits[i] \in 0..9
                /\ native.digits # <<>> => native.digits[1] # 0

\* the prices 0 and -5 raise for 1e6 USD; the price 200 gives 5000 tokens
\* in native units of 9 decimals
C13_Witness ==
    /\ pc = "converted"
    /\ call_in.amount_usd = Dec(1, 6) /\ call_in.decimals = 9
    /\ \/ call_in.token_price_usd \in {Dec(0, 0), Dec(-5, 0)} /\ call_out.native.raised
       \/ /\ call_in.token_price_usd = Dec(200, 0)
          /\ call_out.native.digits = <<5>> \o Zeros(12)

\* C14: for a price > 0 the result of usd_to_native_units is
\* floor(amountUsd * 10^decimals / priceUsd)
C14_TruncatesToFloor ==
    (pc = "converted" /\ ~call_out.native.raised) =>
      call_out.native.digits =
        ExactFloor(call_in.amount_usd, call_in.token_price_usd, call_in.decimals)

\* C15: for an amount > 0 and a price > 0 the round trip through
\* usd_to_native_units and native_to_usd never exceeds the amount and
\* falls short of it by less than the USD value of one native unit,
\* priceUsd / 10^decimals
C15_RoundTripWithinOneUnit ==
    (pc = "converted" /\ ~call_out.native.raised /\ call_in.amount_usd.m > 0) =>
      LET amount == NumberOf(FloatOf(call_in.amount_usd))
          back == NumberOf(call_out.back)
          unit == [mant |-> FloatOf(call_in.token_price_usd).mant,
                   d |-> call_in.decimals,
                   e |-> FloatOf(call_in.token_price_usd).e]
      IN  /\ NumberLE(back, amount)
          /\ ~NumberLE(NumberPlus(back, unit), amount)

\* the venue label a step stands for ("" for none): the label, else the
\* ammKey of a step without the label key, else "Unknown"
VenueOf(step) ==
    IF step.kind # "dict" THEN ""
    ELSE IF step.swapInfo = "missing" THEN "Unknown"
    ELSE IF step.label.k = "str" THEN step.label.s
    ELSE IF step.label.k # "missing" THEN ""
    ELSE IF step.ammKey.k = "str" THEN step.ammKey.s
    ELSE IF step.ammKey.k = "missing" THEN "Unknown"
    ELSE ""

\* the steps at which a venue label is seen for the first time
FirstSeen(plan) ==
    {k \in 1..Len(plan) :
       /\ VenueOf(plan[k]) # ""
       /\ \A j \in 1..(k - 1) : VenueOf(plan[j]) # VenueOf(plan[k])}

ReportedPercent(step) ==
    IF step.kind # "dict" \/ step.swapInfo # "dict" THEN <<>>
    ELSE IF step.percent.k \in {"num", "numstr"} THEN <<step.percent.n>>
    ELSE IF step.percentage.k \in {"num", "numstr"} THEN <<step.percentage.n>>
    ELSE <<>>

\* C17: calculate_route_concentration returns the maximum of the
\* percentages the steps report under percent or else under percentage,
\* and is absent exactly when no step reports one (the empty plan too)
C17_MaxOfReportedPercentages ==
    pc = "routed" =>
      LET plan == call_in.route_plan.plan
          reported == {k \in 1..Len(plan) : ReportedPercent(plan[k]) # <<>>}
          out == call_out.route_concentration
      IN  /\ ~out.raised
          /\ out.v.some <=> reported # {}
          /\ out.v.some =>
                /\ \E k \in reported : out.v.v = ReportedPercent(plan[k])[1]
                /\ \A k \in reported : ReportedPercent(plan[k])[1] <= out.v.v

\* C18: a quote parsed from an HTTP 200 body without priceImpact has no
\* price_impact, and one parsed from a body without router has no router
C18_MissingFieldsAbsent ==
    (pc = "point" /\ quote # <<>> /\ quote[1].success) =>
      LET body == callOutcomes[Len(callOutcomes)].body
      IN  /\ body.priceImpact.k = "missing" => ~quote[1].price_impact.some
          /\ body.router.k = "missing" => quote[1].router = JNull

\* C19: once query_swap_price_impact has returned a result, no later step
\* of analyze_liquidity_depth or of the report changes a field of it
C19_QuoteNeverMutated ==
    [][quote # <<>> => quote' \in {quote, <<>>}]_vars

\* C20: analyze_liquidity_depth returns one point per band in band order
\* (duplicates kept); a band of a reserve whose price is <= 0 gets a failed
\* point with the conversion error, swap_size_native 0, output_usd 0 and
\* effective_price 0, and no aggregator GET is issued for it
C20_OnePointPerBand ==
    /\ [](/\ pc = "rows" => Len(results) = Len(swap_sizes_usd)
          /\ Len(results) <= Len(swap_sizes_usd)
          /\ \A j \in 1..Len(results) :
               /\ results[j].swap_size_usd = swap_sizes_usd[j]
               /\ volatile_reserves[ri].usd_price <= 0 =>
                     /\ ~results[j].success
                     /\ results[j].error = SomeS("Invalid token price")
                     /\ results[j].swap_size_native = 0
                     /\ results[j].output_usd.num = 0
                     /\ results[j].effective_price.num = 0)
    /\ [][(pc = "band" /\ volatile_reserves[ri].usd_price <= 0) =>
            /\ jupiterGets' = jupiterGets
            /\ pc' # "query"
            /\ Len(results') = Len(results) + 1]_vars

\* analyze_liquidity_depth has returned the two failed points of the
\* ladder 4, 4 for a reserve without a price, and no GET was issued
C20_Witness ==
    /\ pc = "rows"
    /\ swap_sizes_usd = <<4, 4>>
    /\ volatile_reserves[ri].usd_price = 0
    /\ Len(results) = 2
    /\ results[2] = ConversionFailedPoint(4)
    /\ jupiterGets = 0

\* a value that names something: a non-empty text
Usable(val) == val.k = "str" /\ val.s # ""

\* the Reserve the claim expects of a record (<<>> for a skipped one): a
\* record with a symbol and a mint under mintAddress or under mint, its
\* missing price, decimals and deposits read as 0
ExpectedReserve(rec) ==
    LET price == Get(rec.assetPriceUSD, JNum(0))
        decimals == Get(rec.decimals, JNum(0))
        wads == Get(rec.totalLiquidityWads, Get(rec.totalDepositsWads, JNum(0)))
    IN  IF \/ rec.kind # "dict"
           \/ ~Usable(rec.symbol)
           \/ ~(Usable(rec.mintAddress) \/ Usable(rec.mint))
           \/ price.k \notin {"num", "numstr"}
           \/ decimals.k # "num"
           \/ wads.k \notin {"num", "numstr"}
        THEN <<>>
        ELSE << [symbol |-> Upper(rec.symbol.s),
                 mint_address |-> IF Usable(rec.mintAddress) THEN rec.mintAddress
                                  ELSE rec.mint,
                 decimals |-> decimals.n,
                 total_deposits |-> Rat(wads.n, Pow(10, decimals.n)),
                 usd_price |-> price.n,
                 tvl_usd |-> Rat(wads.n * price.n, Pow(10, decimals.n))] >>

RECURSIVE ExpectedReserves(_)
ExpectedReserves(recs) ==
    IF recs = <<>> THEN <<>>
    ELSE ExpectedReserve(Head(recs)) \o ExpectedReserves(Tail(recs))

\* C21: _parse_reserves returns, in input order, one Reserve for each
\* record with a non-empty symbol and a mint under mintAddress or mint, and
\* skips the others; missing price, decimals or deposits become 0; for both
\* shapes of the response
C21_OneReservePerValidRecord ==
    pc = "parsed" =>
      LET data == call_in.market_data
          recs == IF data.reserves # <<>> THEN data.reserves ELSE data.nested
      IN  call_out.reserves = ExpectedReserves(recs)

\* the bands of the run so far whose aggregator query has returned and whose
\* point is kept: the rows of the reserves with a price, and the points of
\* the reserve under analysis if it has a price
QueriedBands ==
    Cardinality({i \in 1..Len(all_results) : all_results[i].current_price_usd > 0})
    + (IF pc \in {"band", "query", "point"} /\ volatile_reserves[ri].usd_price > 0
       THEN Len(results) ELSE 0)

\* C22: one pacing delay follows each band's aggregator query, whether the
\* quote succeeded or failed, and precedes the next band's query; the
\* backoff sleeps of the query are apart from it
C22_OnePacingPerQuery ==
    /\ [](pc \in {"band", "query", "point"} => pacing = QueriedBands)
    /\ [][((pc = "point" /\ pc' # "raised") =>
              (pacing' = pacing + 1 /\ callSleeps' = callSleeps))
           /\ (pc # "point" => pacing' = pacing)]_vars

\* the second band is being queried after a first band whose quote failed
\* after two backoff sleeps: one pacing delay has passed
C22_Witness ==
    /\ pc = "query" /\ bi = 2 /\ Len(results) = 1
    /\ ~results[1].success /\ results[1].error # SomeS("Invalid token price")
    /\ pacing = 1
    /\ jupiterGets = MAX_RETRIES

\* the venue label the claim gives a step ("" for a step that is no
\* object): its label if usable, otherwise its ammKey if usable, otherwise
\* "Unknown"
FallbackVenue(step) ==
    IF step.kind # "dict" THEN ""
    ELSE IF step.swapInfo = "missing" THEN "Unknown"
    ELSE IF Usable(step.label) THEN step.label.s
    ELSE IF Usable(step.ammKey) THEN step.ammKey.s
    ELSE "Unknown"

\* the steps at which such a label is seen for the first time
FirstFallback(plan) ==
    {k \in 1..Len(plan) :
       /\ FallbackVenue(plan[k]) # ""
       /\ \A j \in 1..(k - 1) : FallbackVenue(plan[j]) # FallbackVenue(plan[k])}

\* C23: every step contributes to parse_route_summary its label, otherwise
\* its ammKey, otherwise "Unknown": a step whose label is null or empty and
\* whose ammKey is set contributes the ammKey
C23_LabelFallsBackToAmmKey ==
    pc = "routed" =>
      LET plan == call_in.route_plan.plan
          firsts == FirstFallback(plan)
          out == call_out.route_summary.v
      IN  \A i \in 1..Len(out) :
            firsts # {} =>
              \E k \in firsts :
                /\ Cardinality({j \in firsts : j < k}) = i - 1
                /\ out[i] = FallbackVenue(plan[k])

\* C24: every point of analyze_liquidity_depth and every report row has
\* success exactly when its error is absent, and a failed one has
\* output_usd 0, effective_price 0 and no price_impact_pct
C24_SuccessIffNoError ==
    /\ \A j \in 1..Len(results) :
         /\ results[j].success <=> ~results[j].error.some
         /\ ~results[j].success =>
               /\ results[j].output_usd.num = 0
               /\ results[j].effective_price.num = 0
               /\ ~results[j].price_impact_pct.some
    /\ \A i \in 1..Len(all_results) :
         /\ all_results[i].quote_success <=> ~all_results[i].error_msg.some
         /\ ~all_results[i].quote_success =>
               /\ all_results[i].output_usd.num = 0
               /\ all_results[i].effective_price.num = 0
               /\ ~all_results[i].price_impact_pct.some

\* a finished run with a row of a quote that failed after MAX_RETRIES
\* GETs and a row of a quote that succeeded
C24_Witness ==
    /\ pc = "done"
    /\ \E i, j \in 1..Len(all_results) :
         /\ ~all_results[i].quote_success
         /\ all_results[i].error_msg \in {SomeS("ConnectTimeout"),
                                          SomeS("Max retries exceeded")}
         /\ all_results[j].quote_success
         /\ all_results[j].output_usd.num > 0

\* C25: in one call of query_swap_price_impact every backoff sleep is
\* followed by a further GET of the call: a call that has returned has slept
\* fewer times than it issued GETs, at most MAX_RETRIES - 1 times
C25_NoSleepAfterFinalAttempt ==
    /\ Len(callSleeps) <= MAX_RETRIES - 1
    /\ pc = "point" => Len(callSleeps) <= attempt - 1
====
